---- MODULE Spec2Model ----
(***************************************************************************)
(* wait_file_created (src/src/lib.rs): one call of                         *)
(* Options::open_when_created running against a file system, the Linux     *)
(* inotify facility and a writer process.                                  *)
(*                                                                         *)
(* The waiter's steps are the system calls of internal_open_when_created,  *)
(* wait_for_file and try_fallback_open.  The environment is the part of    *)
(* Linux those calls talk to, as inotify(7), open(2), unlink(2), rename(2) *)
(* and rmdir(2) specify it:                                                *)
(*   - add_watch(path, .. | ONLYDIR) succeeds only if `path` names a        *)
(*     directory (ENOENT if nothing is there, ENOTDIR for a regular file); *)
(*   - the watch is attached to that directory's inode: it reports events  *)
(*     on the directory's entries, each with the entry's file name, and    *)
(*     the directory's own removal (DELETE_SELF without a name, followed   *)
(*     by IGNORED when the kernel drops the watch);                        *)
(*   - nothing that happens to the entry `path` in its parent directory    *)
(*     is reported, the parent not being watched.                          *)
(***************************************************************************)
EXTENDS Integers, Naturals, Sequences, FiniteSets, TLC

\* ------------------------------------------------------------------ bounds
\* inodes the path can be occupied by, one after the other (the directory or
\* file there at the start included)
MaxIno == 2
\* chunks the writer's complete content consists of
Full == 2
\* events the inotify queue holds
MaxQueue == 3

\* --------------------------------------------------------------- constants
Paths == {"test", "tmp/test"}
Names == {"test", "other"}
OpenModes == {"read", "read_write"}

VARIABLES
    options,          \* Options { open_options, retry_flukes, create_is_atomic, polling_fallback }
    path,             \* the path given to open_when_created
    dentry,           \* inode the path names, 0 when nothing is there
    inodes,           \* inode -> [kind, data, atomic, denied]
    writer_fd,        \* inode the writer holds open for writing, 0 when none
    inotify,          \* number of live inotify instances of this call
    watch,            \* the kernel still holds the watch added by add_watch
    events,           \* the inotify instance's event queue
    pc,               \* where the call is
    not_found_is_ok,  \* wait_for_file's local
    inotify_error,    \* try_fallback_open's parameter
    result,           \* what open_when_created returned
    contents,         \* what the caller read from the returned file
    hist              \* history of the call, for stating properties

vars == <<options, path, dentry, inodes, writer_fd, inotify, watch, events, pc,
          not_found_is_ok, inotify_error, result, contents, hist>>

fsVars == <<dentry, inodes, writer_fd>>
callVars == <<pc, not_found_is_ok, inotify_error, result, contents>>

\* ------------------------------------------------------------------ errors
Err(kind, op) == [kind |-> kind, op |-> op]
NoError == Err("none", "none")
ENOENT_open == Err("NotFound", "open")
EACCES_open == Err("PermissionDenied", "open")
EISDIR_open == Err("IsADirectory", "open")
EMFILE_init == Err("Other", "init")
ENOENT_add_watch == Err("NotFound", "add_watch")
ENOTDIR_add_watch == Err("NotADirectory", "add_watch")
ENOSPC_add_watch == Err("Other", "add_watch")
EINTR_read == Err("Interrupted", "read_events")
\* io::Error::from(io::ErrorKind::NotFound), lib.rs:197
NotFound_ignored == Err("NotFound", "ignored")

Ok(ino) == [tag |-> "Ok", file |-> ino, error |-> NoError]
Failed(e) == [tag |-> "Err", file |-> 0, error |-> e]
Pending == [tag |-> "Pending", file |-> 0, error |-> NoError]

\* ------------------------------------------------------------- file system
NoInode == [kind |-> "none", data |-> 0, atomic |-> FALSE, denied |-> FALSE]
\* an inode with no name and no open descriptor left: the kernel frees it
Gone == [kind |-> "gone", data |-> 0, atomic |-> FALSE, denied |-> FALSE]
Inode(kind, data, atomic, denied) ==
    [kind |-> kind, data |-> data, atomic |-> atomic, denied |-> denied]

KindAt == IF dentry = 0 THEN "absent" ELSE inodes[dentry].kind

\* the inode table once every inode that is neither named by d, nor held
\* open by the writer (w), nor held open by the caller, is freed
Freed(tbl, d, w) ==
    [i \in 1..MaxIno |->
        IF tbl[i].kind \in {"none", "gone"} \/ i \in {d, w, result.file}
        THEN tbl[i] ELSE Gone]

FreeInos == {i \in 1..MaxIno : inodes[i].kind = "none"}
NewIno == CHOOSE i \in FreeInos : \A j \in FreeInos : i <= j

\* Open with create(true) among the open options: a missing file is made
Open_creating(mode) ==
    IF dentry = 0 THEN (IF FreeInos = {} THEN Failed(ENOENT_open) ELSE Ok(NewIno))
    ELSE IF inodes[dentry].denied THEN Failed(EACCES_open)
    ELSE IF inodes[dentry].kind = "dir" /\ mode # "read" THEN Failed(EISDIR_open)
    ELSE Ok(dentry)

\* OpenOptions::open(path), lib.rs:155 and 175: the handle, or the error
\* open(2) gives
Open(mode) ==
    IF dentry = 0 THEN Failed(ENOENT_open)
    ELSE IF inodes[dentry].denied THEN Failed(EACCES_open)
    ELSE IF inodes[dentry].kind = "dir" /\ mode # "read" THEN Failed(EISDIR_open)
    ELSE Ok(dentry)

\* ----------------------------------------------------------------- inotify
Event(mask, name) == [mask |-> mask, name |-> name]
None == <<>>
Some(n) == <<n>>

\* WatchMask with CREATE whatever the option says
WatchMask_always_create(create_is_atomic) ==
    {"CLOSE_WRITE", "MOVED_TO", "DELETE_SELF", "ONLYDIR", "CREATE"}

\* lib.rs:136-139
WatchMask(create_is_atomic) ==
    {"CLOSE_WRITE", "MOVED_TO", "DELETE_SELF", "ONLYDIR"}
        \cup (IF create_is_atomic THEN {"CREATE"} ELSE {})

\* the kernel drops an event equal to the newest queued one
Queue(q, e) == IF Len(q) > 0 /\ q[Len(q)] = e THEN q ELSE Append(q, e)

\* the kernel's answer to add_watch(path, mask) with ONLYDIR in the mask
AddWatchResult ==
    IF dentry = 0 THEN ENOENT_add_watch
    ELSE IF inodes[dentry].kind # "dir" THEN ENOTDIR_add_watch
    ELSE NoError

\* the for loop letting a match in the batch win over the IGNORED event
Scan_match_first(batch, p, found) ==
    IF found \/ \E i \in 1..Len(batch) : batch[i].name = Some(p) THEN "found"
    ELSE IF \E i \in 1..Len(batch) : batch[i].mask = "IGNORED" THEN "ignored"
    ELSE "none"

\* the for loop taking an event without a name for a match as well
Scan_nameless(batch, p, found) ==
    IF \E i \in 1..Len(batch) : batch[i].mask = "IGNORED" THEN "ignored"
    ELSE IF found \/ \E i \in 1..Len(batch) :
                        batch[i].name = Some(p) \/ batch[i].name = None
         THEN "found"
    ELSE "none"

\* lib.rs:195-202, the for loop over one batch: "ignored" as soon as an
\* IGNORED event is met, else whether some event's name is the path
RECURSIVE Scan(_, _, _)
Scan(batch, p, found) ==
    IF batch = <<>> THEN (IF found THEN "found" ELSE "none")
    ELSE IF batch[1].mask = "IGNORED" THEN "ignored"
    ELSE Scan(Tail(batch), p, found \/ batch[1].name = Some(p))

HasMatch(batch, p) ==
    \E i \in 1..Len(batch) : batch[i].name = Some(p)

\* --------------------------------------------------------------------- Init
OptionsSet ==
    [open_options : OpenModes, retry_flukes : BOOLEAN,
     create_is_atomic : BOOLEAN, polling_fallback : BOOLEAN]

\* what the path names when the call starts: nothing, a directory, a file
\* placed atomically, or a file its writer is still writing in place
InitialInodes ==
    {Inode("dir", 0, FALSE, FALSE), Inode("file", Full, TRUE, FALSE),
     Inode("file", 0, FALSE, FALSE)}

\* established: add_watch succeeded; signalled: a batch read held an event
\* named as the path; fluke: a file was removed from the path while the call
\* was pending; initial: what the path named when the call started
NoHist == [established |-> FALSE, signalled |-> FALSE, fluke |-> FALSE,
           initial |-> "absent"]

Init ==
    /\ options \in OptionsSet
    /\ path \in Paths
    /\ \/ /\ dentry = 0
          /\ inodes = [i \in 1..MaxIno |-> NoInode]
          /\ writer_fd = 0
       \/ \E n \in InitialInodes :
          /\ dentry = 1
          /\ inodes = [i \in 1..MaxIno |-> IF i = 1 THEN n ELSE NoInode]
          /\ writer_fd = IF n.kind = "file" /\ ~n.atomic THEN 1 ELSE 0
    /\ inotify = 0
    /\ watch = FALSE
    /\ events = <<>>
    /\ pc = "init"
    /\ not_found_is_ok = TRUE
    /\ inotify_error = NoError
    /\ result = Pending
    /\ contents = -1
    /\ hist = [NoHist EXCEPT !.initial = KindAt]

\* the call is pending until it has returned; the world is followed until
\* then, and the caller reads the file it was given as soon as it has it
Pending_call == pc \notin {"returned", "read"}

Running == Pending_call

\* ------------------------------------------------------------ the waiter
\* Return with the inotify instance kept from being dropped
Return_leaking(r) ==
    /\ pc' = "returned"
    /\ result' = r
    /\ UNCHANGED <<inotify, watch, events>>

\* a return of open_when_created: the inotify instance, owned by the frame
\* that returns, is dropped, which closes it and its watch
Return(r) ==
    /\ pc' = "returned"
    /\ result' = r
    /\ inotify' = 0
    /\ watch' = FALSE
    /\ events' = <<>>

\* entering try_fallback_open(path, error); the caller's inotify instance,
\* if any, stays alive until try_fallback_open has returned
Fallback(error) ==
    /\ pc' = "fb_open"
    /\ inotify_error' = error

\* the queue holds the events the call can still read: none once it has
\* left the wait loop
Readable == pc \in {"wf_open", "wf_read"}

\* lib.rs:134, Ok arm
InotifyInit ==
    /\ pc = "init"
    /\ inotify' = inotify + 1
    /\ pc' = "add_watch"
    /\ UNCHANGED <<options, path, fsVars, watch, events, not_found_is_ok,
                   inotify_error, result, contents, hist>>

\* lib.rs:134 and 149, Err arm
InotifyInitFail ==
    /\ pc = "init"
    /\ Fallback(EMFILE_init)
    /\ UNCHANGED <<options, path, fsVars, inotify, watch, events,
                   not_found_is_ok, result, contents, hist>>

\* AddWatch with the toggle set from retry_flukes before the first open
AddWatch_strict ==
    /\ pc = "add_watch"
    /\ AddWatchResult = NoError
    /\ watch' = TRUE
    /\ pc' = "wf_open"
    /\ not_found_is_ok' = options.retry_flukes
    /\ hist' = [hist EXCEPT !.established = TRUE]
    /\ UNCHANGED <<options, path, fsVars, inotify, events, inotify_error,
                   result, contents>>

\* lib.rs:141-146, add_watch succeeded: wait_for_file starts
AddWatch ==
    /\ pc = "add_watch"
    /\ AddWatchResult = NoError
    /\ watch' = TRUE
    /\ pc' = "wf_open"
    /\ not_found_is_ok' = TRUE
    /\ hist' = [hist EXCEPT !.established = TRUE]
    /\ UNCHANGED <<options, path, fsVars, inotify, events, inotify_error,
                   result, contents>>

\* lib.rs:141-144, add_watch failed: the path is no directory, or the
\* user's watch limit is reached
AddWatchFail ==
    /\ pc = "add_watch"
    /\ \E e \in {AddWatchResult, ENOSPC_add_watch} :
          /\ e # NoError
          /\ Fallback(e)
    /\ UNCHANGED <<options, path, fsVars, inotify, watch, events,
                   not_found_is_ok, result, contents, hist>>

\* WaitOpen with the watch set up anew after the check: what was queued
\* before is lost
WaitOpen_rewatch ==
    /\ pc = "wf_open"
    /\ LET r == Open(options.open_options) IN
          IF r.tag = "Ok" THEN
              Return(r) /\ UNCHANGED not_found_is_ok
          ELSE IF r.error.kind = "NotFound" /\ not_found_is_ok THEN
              /\ pc' = "wf_read"
              /\ events' = <<>>
              /\ UNCHANGED <<result, inotify, watch, not_found_is_ok>>
          ELSE
              Return(r) /\ UNCHANGED not_found_is_ok
    /\ UNCHANGED <<options, path, fsVars, inotify_error, contents, hist>>

\* lib.rs:175-179
WaitOpen ==
    /\ pc = "wf_open"
    /\ LET r == Open(options.open_options) IN
          IF r.tag = "Ok" THEN
              Return(r) /\ UNCHANGED not_found_is_ok
          ELSE IF r.error.kind = "NotFound" /\ not_found_is_ok THEN
              /\ pc' = "wf_read"
              /\ UNCHANGED <<result, inotify, watch, events, not_found_is_ok>>
          ELSE
              Return(r) /\ UNCHANGED not_found_is_ok
    /\ UNCHANGED <<options, path, fsVars, inotify_error, contents, hist>>

\* ReadEvents with not_found_is_ok left true after a match
ReadEvents_forgiving ==
    /\ pc = "wf_read"
    /\ \E k \in 1..Len(events) :
          LET batch == SubSeq(events, 1, k)
              scan == Scan(batch, path, FALSE)
          IN  /\ events' = IF scan = "ignored" THEN <<>>
                            ELSE SubSeq(events, k + 1, Len(events))
              /\ hist' = [hist EXCEPT !.signalled = @ \/ HasMatch(batch, path)]
              /\ IF scan = "ignored" THEN
                     Fallback(NotFound_ignored) /\ UNCHANGED not_found_is_ok
                 ELSE IF scan = "found" THEN
                     /\ not_found_is_ok' = TRUE
                     /\ pc' = "wf_open"
                     /\ UNCHANGED inotify_error
                 ELSE
                     UNCHANGED <<pc, not_found_is_ok, inotify_error>>
    /\ UNCHANGED <<options, path, fsVars, inotify, watch, result, contents>>

\* ReadEvents with an open attempt after every batch, matching or not
ReadEvents_eager ==
    /\ pc = "wf_read"
    /\ \E k \in 1..Len(events) :
          LET batch == SubSeq(events, 1, k)
              scan == Scan(batch, path, FALSE)
          IN  /\ events' = IF scan = "ignored" THEN <<>>
                            ELSE SubSeq(events, k + 1, Len(events))
              /\ hist' = [hist EXCEPT !.signalled = @ \/ HasMatch(batch, path)]
              /\ IF scan = "ignored" THEN
                     Fallback(NotFound_ignored) /\ UNCHANGED not_found_is_ok
                 ELSE IF scan = "found" THEN
                     /\ not_found_is_ok' = options.retry_flukes
                     /\ pc' = "wf_open"
                     /\ UNCHANGED inotify_error
                 ELSE
                     /\ pc' = "wf_open"
                     /\ UNCHANGED <<not_found_is_ok, inotify_error>>
    /\ UNCHANGED <<options, path, fsVars, inotify, watch, result, contents>>

\* ReadEvents with the toggle cleared after a match whatever retry_flukes is
ReadEvents_strict ==
    /\ pc = "wf_read"
    /\ \E k \in 1..Len(events) :
          LET batch == SubSeq(events, 1, k)
              scan == Scan(batch, path, FALSE)
          IN  /\ events' = IF scan = "ignored" THEN <<>>
                            ELSE SubSeq(events, k + 1, Len(events))
              /\ hist' = [hist EXCEPT !.signalled = @ \/ HasMatch(batch, path)]
              /\ IF scan = "ignored" THEN
                     Fallback(NotFound_ignored) /\ UNCHANGED not_found_is_ok
                 ELSE IF scan = "found" THEN
                     /\ not_found_is_ok' = FALSE
                     /\ pc' = "wf_open"
                     /\ UNCHANGED inotify_error
                 ELSE
                     UNCHANGED <<pc, not_found_is_ok, inotify_error>>
    /\ UNCHANGED <<options, path, fsVars, inotify, watch, result, contents>>

\* lib.rs:188-205, one read_events_blocking that returned a batch, the for
\* loop over the batch, and what follows it
ReadEvents ==
    /\ pc = "wf_read"
    /\ \E k \in 1..Len(events) :
          LET batch == SubSeq(events, 1, k)
              scan == Scan(batch, path, FALSE)
          IN  /\ events' = IF scan = "ignored" THEN <<>>
                            ELSE SubSeq(events, k + 1, Len(events))
              /\ hist' = [hist EXCEPT !.signalled = @ \/ HasMatch(batch, path)]
              /\ IF scan = "ignored" THEN
                     Fallback(NotFound_ignored) /\ UNCHANGED not_found_is_ok
                 ELSE IF scan = "found" THEN
                     /\ not_found_is_ok' = options.retry_flukes
                     /\ pc' = "wf_open"
                     /\ UNCHANGED inotify_error
                 ELSE
                     UNCHANGED <<pc, not_found_is_ok, inotify_error>>
    /\ UNCHANGED <<options, path, fsVars, inotify, watch, result, contents>>

\* ReadEventsFail with the inotify instance closed before the fallback runs
ReadEventsFail_releasing ==
    /\ pc = "wf_read"
    /\ Fallback(EINTR_read)
    /\ events' = <<>>
    /\ inotify' = 0
    /\ watch' = FALSE
    /\ UNCHANGED <<options, path, fsVars,
                   not_found_is_ok, result, contents, hist>>

\* lib.rs:190-193, read_events_blocking failed
ReadEventsFail ==
    /\ pc = "wf_read"
    /\ Fallback(EINTR_read)
    /\ events' = <<>>
    /\ UNCHANGED <<options, path, fsVars, inotify, watch,
                   not_found_is_ok, result, contents, hist>>

\* FallbackOpen returning the inotify error for every error of open
FallbackOpen_cause ==
    /\ pc = "fb_open"
    /\ LET r == Open(options.open_options) IN
          IF r.tag = "Ok" THEN Return(r)
          ELSE IF r.error.kind = "NotFound" THEN
              IF options.polling_fallback THEN
                  /\ pc' = "fb_sleep"
                  /\ UNCHANGED <<result, inotify, watch, events>>
              ELSE Return(Failed(inotify_error))
          ELSE Return(Failed(inotify_error))
    /\ UNCHANGED <<options, path, fsVars, not_found_is_ok, inotify_error, contents, hist>>

\* FallbackOpen sleeping whether or not an interval is set
FallbackOpen_always_sleep ==
    /\ pc = "fb_open"
    /\ LET r == Open(options.open_options) IN
          IF r.tag = "Ok" THEN Return(r)
          ELSE IF r.error.kind = "NotFound" THEN
              /\ pc' = "fb_sleep"
              /\ UNCHANGED <<result, inotify, watch, events>>
          ELSE Return(r)
    /\ UNCHANGED <<options, path, fsVars, not_found_is_ok, inotify_error, contents, hist>>

\* FallbackOpen returning open's own NotFound error when it gives up
FallbackOpen_open_error ==
    /\ pc = "fb_open"
    /\ LET r == Open(options.open_options) IN
          IF r.tag = "Ok" THEN Return(r)
          ELSE IF r.error.kind = "NotFound" THEN
              IF options.polling_fallback THEN
                  /\ pc' = "fb_sleep"
                  /\ UNCHANGED <<result, inotify, watch, events>>
              ELSE Return(r)
          ELSE Return(r)
    /\ UNCHANGED <<options, path, fsVars, not_found_is_ok, inotify_error, contents, hist>>

\* FallbackOpen that looks at the interval first and gives up unopened
FallbackOpen_interval_first ==
    /\ pc = "fb_open"
    /\ IF ~options.polling_fallback THEN Return(Failed(inotify_error))
       ELSE LET r == Open(options.open_options) IN
          IF r.tag = "Ok" THEN Return(r)
          ELSE IF r.error.kind = "NotFound" THEN
              /\ pc' = "fb_sleep"
              /\ UNCHANGED <<result, inotify, watch, events>>
          ELSE Return(r)
    /\ UNCHANGED <<options, path, fsVars, not_found_is_ok, inotify_error, contents, hist>>

\* lib.rs:155-164, one round of try_fallback_open's loop up to the sleep
FallbackOpen ==
    /\ pc = "fb_open"
    /\ LET r == Open(options.open_options) IN
          IF r.tag = "Ok" THEN Return(r)
          ELSE IF r.error.kind = "NotFound" THEN
              IF options.polling_fallback THEN
                  /\ pc' = "fb_sleep"
                  /\ UNCHANGED <<result, inotify, watch, events>>
              ELSE Return(Failed(inotify_error))
          ELSE Return(r)
    /\ UNCHANGED <<options, path, fsVars, not_found_is_ok, inotify_error, contents, hist>>

\* FallbackSleep never getting back to the open
FallbackSleep_on ==
    /\ pc = "fb_sleep"
    /\ pc' = "fb_sleep"
    /\ UNCHANGED <<options, path, fsVars, inotify, watch, events,
                   not_found_is_ok, inotify_error, result, contents, hist>>

\* FallbackSleep that tries inotify again after the sleep
FallbackSleep_rewatch ==
    /\ pc = "fb_sleep"
    /\ pc' = IF inotify = 1 THEN "add_watch" ELSE "fb_open"
    /\ UNCHANGED <<options, path, fsVars, inotify, watch, events,
                   not_found_is_ok, inotify_error, result, contents, hist>>

\* lib.rs:162, std::thread::sleep(*interval) returns
FallbackSleep ==
    /\ pc = "fb_sleep"
    /\ pc' = "fb_open"
    /\ UNCHANGED <<options, path, fsVars, inotify, watch, events,
                   not_found_is_ok, inotify_error, result, contents, hist>>

\* lib.rs:277-278, the caller reads the returned file to its end
ReadToString ==
    /\ pc = "returned"
    /\ result.tag = "Ok"
    /\ pc' = "read"
    /\ contents' = inodes[result.file].data
    /\ UNCHANGED <<options, path, fsVars, inotify, watch, events,
                   not_found_is_ok, inotify_error, result, hist>>

Waiter ==
    \/ InotifyInit
    \/ AddWatch
    \/ AddWatchFail
    \/ WaitOpen
    \/ ReadEvents
    \/ FallbackOpen
    \/ FallbackSleep
    \/ ReadToString

\* ------------------------------------------------------------- the writer
\* lib.rs:271, File::create(path): the file appears, empty and open
CreateInPlace ==
    /\ Running
    /\ dentry = 0
    /\ writer_fd = 0
    /\ FreeInos # {}
    /\ \E denied \in BOOLEAN :
          inodes' = [inodes EXCEPT ![NewIno] = Inode("file", 0, FALSE, denied)]
    /\ dentry' = NewIno
    /\ writer_fd' = NewIno
    /\ UNCHANGED <<options, path, inotify, watch, events, callVars, hist>>

\* lib.rs:273, write_all, a chunk at a time
WriteChunk ==
    /\ Running
    /\ writer_fd # 0
    /\ inodes[writer_fd].data < Full
    /\ inodes' = [inodes EXCEPT ![writer_fd].data = @ + 1]
    /\ UNCHANGED <<options, path, dentry, writer_fd, inotify, watch, events,
                   callVars, hist>>

\* lib.rs:275, the writer's file is closed when its thread ends
CloseFile ==
    /\ Running
    /\ writer_fd # 0
    /\ inodes[writer_fd].data = Full
    /\ writer_fd' = 0
    /\ inodes' = Freed(inodes, dentry, 0)
    /\ UNCHANGED <<options, path, dentry, inotify, watch, events, callVars, hist>>

\* lib.rs:32-35, a complete temporary file is renamed to the path
MoveIntoPlace ==
    /\ Running
    /\ KindAt \in {"absent", "file"}
    /\ FreeInos # {}
    /\ \E denied \in BOOLEAN :
          inodes' = Freed([inodes EXCEPT ![NewIno] = Inode("file", Full, TRUE, denied)],
                          NewIno, writer_fd)
    /\ dentry' = NewIno
    /\ UNCHANGED <<options, path, writer_fd, inotify, watch, events, callVars, hist>>

\* lib.rs:84-87, the file is deleted again
Unlink ==
    /\ Running
    /\ KindAt = "file"
    /\ dentry' = 0
    /\ inodes' = Freed(inodes, 0, writer_fd)
    /\ hist' = [hist EXCEPT !.fluke = @ \/ Pending_call]
    /\ UNCHANGED <<options, path, writer_fd, inotify, watch, events, callVars>>

\* the directory at the path is renamed away: its watch stays, MOVE_SELF
\* is not in the mask
RenameDirAway ==
    /\ Running
    /\ KindAt = "dir"
    /\ dentry' = 0
    /\ UNCHANGED <<options, path, inodes, writer_fd, inotify, watch, events,
                   callVars, hist>>

\* the directory, at the path or renamed away, is removed: DELETE_SELF,
\* then IGNORED as the kernel drops the watch
Rmdir ==
    /\ Running
    /\ KindAt = "dir" \/ watch
    /\ dentry' = IF KindAt = "dir" THEN 0 ELSE dentry
    /\ inodes' = [i \in 1..MaxIno |->
                    IF inodes[i].kind = "dir" /\ i # result.file THEN Gone ELSE inodes[i]]
    /\ watch' = FALSE
    /\ IF watch /\ Readable THEN
          /\ Len(events) + 2 <= MaxQueue
          /\ events' = events \o <<Event("DELETE_SELF", None), Event("IGNORED", None)>>
       ELSE UNCHANGED events
    /\ UNCHANGED <<options, path, writer_fd, inotify, callVars, hist>>

\* a file of the watched directory is closed after writing or, with CREATE
\* in the mask, created.  (A file moved into the directory gives MOVED_TO,
\* which lib.rs:195-202 treats as it treats CLOSE_WRITE: only IGNORED and
\* the name are looked at.)
EntryEvent ==
    /\ Running
    /\ watch
    /\ Readable
    /\ Len(events) < MaxQueue
    /\ \E m \in WatchMask(options.create_is_atomic) \cap {"CLOSE_WRITE", "CREATE"},
          n \in Names :
          events' = Queue(events, Event(m, Some(n)))
    /\ UNCHANGED <<options, path, fsVars, inotify, watch, callVars, hist>>

Environment ==
    \/ InotifyInitFail
    \/ ReadEventsFail
    \/ CreateInPlace
    \/ WriteChunk
    \/ CloseFile
    \/ MoveIntoPlace
    \/ Unlink
    \/ RenameDirAway
    \/ Rmdir
    \/ EntryEvent

Next == Waiter \/ Environment

Spec == Init /\ [][Next]_vars

\* the calling thread is scheduled as long as it has a step to take
FairSpec == Spec /\ WF_vars(Waiter)

\* ================================================================ claims
Returned == pc \in {"returned", "read"}
Handle == result.tag = "Ok"
\* try_fallback_open was entered from internal_open_when_created: init or
\* add_watch failed
Unavailable == inotify_error.op \in {"init", "add_watch"}
\* the waiter takes the step that ends an open attempt
OpenAttempt == pc \in {"wf_open", "fb_open"} /\ pc' # pc
\* inotify itself has not failed for want of resources
NoResourceFailure == inotify_error.kind \notin {"Other", "Interrupted"}
OpenableFileAt(i) ==
    dentry = i /\ i # 0 /\ inodes[i].kind = "file" /\ ~inodes[i].denied

\* C1: a handle the call returns to a file that its writer placed at the path
\* by one atomic move is a handle to a file the writer placed, whose content
\* is complete when the handle is returned and when the caller reads it, on
\* the notification path as on the polling path.
C1_AtomicPlacementReadsComplete ==
    (Handle /\ inodes[result.file].kind # "dir") =>
        /\ inodes[result.file].kind = "file"
        /\ inodes[result.file].atomic =>
              /\ inodes[result.file].data = Full
              /\ pc = "read" => contents = Full

\* C1 witness: the wait loop, after a matching event, opened a file that
\* had been moved into place, and the caller read it.
C1_Witness ==
    /\ pc = "read"
    /\ hist.established /\ hist.signalled /\ inotify_error = NoError
    /\ inodes[result.file].atomic
    /\ contents = Full

\* C1 witness on the polling path.
C1_WitnessPolling ==
    /\ pc = "read"
    /\ Unavailable /\ hist.initial = "absent"
    /\ inodes[result.file].atomic
    /\ contents = Full

\* C2: started with the read-only preset on a path that names nothing, with
\* a writer that creates the file in place, writes it and closes it, the
\* file the call returns reads as the complete content.
Preset ==
    /\ options.retry_flukes /\ options.polling_fallback
    /\ ~options.create_is_atomic /\ options.open_options = "read"

C2_PresetReadsComplete ==
    (/\ Preset /\ hist.initial = "absent" /\ NoResourceFailure
     /\ pc = "read" /\ inodes[result.file].kind = "file"
     /\ ~inodes[result.file].atomic)
        => contents = Full

\* C3 as claimed: with retry_on_fluke = false, once a matching event has been
\* read, an open attempt that finds nothing at the path ends the call with a
\* NotFound error, whatever the other options are.
C3_FlukeEndsCall ==
    [][(/\ ~options.retry_flukes /\ hist.signalled
        /\ OpenAttempt /\ dentry = 0)
          => (pc' = "returned" /\ result'.tag = "Err"
              /\ result'.error.kind = "NotFound")]_vars

\* C3 as amended: with retry_on_fluke = false, once a batch with a matching
\* event and no IGNORED event has been read, the wait loop's open attempt
\* that follows and finds nothing at the path ends the call with open's
\* NotFound error, with no further event read and no sleep.
C3_FlukeEndsWaitLoop ==
    [][(/\ ~options.retry_flukes /\ hist.signalled
        /\ pc = "wf_open" /\ pc' # pc /\ dentry = 0)
          => (pc' = "returned" /\ result' = Failed(ENOENT_open))]_vars

\* C3 witness: the call ended so.
C3_Witness ==
    /\ ~options.retry_flukes /\ hist.signalled
    /\ pc = "returned" /\ result = Failed(ENOENT_open)

\* C4: with retry_on_fluke = true, a call that has seen the file removed
\* from the path goes on waiting for the second occupant: it does not end
\* with a NotFound error, and a file it returns is the one then at the path.
C4_WaitsForSecondOccupant ==
    (/\ options.retry_flukes /\ hist.initial = "absent" /\ hist.fluke
     /\ NoResourceFailure /\ Returned)
        => /\ ~(result.tag = "Err" /\ result.error.kind = "NotFound")
           /\ Handle => result.file = dentry

\* C5: with init or add_watch failed and a polling interval set, once a file
\* is at the path and stays, the call returns a handle, the handle of the
\* file at the path; and no sleep is begun while something is at the path,
\* so that the sleep under way when the file appeared is the last one.
C5_PollingFindsFile ==
    /\ (/\ Unavailable /\ options.polling_fallback /\ Pending_call
        /\ OpenableFileAt(dentry))
           ~> (Handle \/ ~OpenableFileAt(dentry))
    /\ [][(/\ Unavailable /\ options.polling_fallback /\ OpenAttempt)
            => /\ Handle' => result'.file = dentry
               /\ pc' = "fb_sleep" => dentry = 0]_vars
    /\ [][(pc = "fb_sleep" /\ pc' # pc) => pc' = "fb_open"]_vars

\* C5 witness: the file has appeared while the polling loop sleeps.
C5_Witness ==
    /\ Unavailable /\ options.polling_fallback
    /\ pc = "fb_sleep" /\ OpenableFileAt(dentry)

\* C6 as claimed: with init or add_watch failed and no polling interval, the
\* call neither sleeps nor reads events, and what it returns is an error.
C6_UnavailableFails ==
    (Unavailable /\ ~options.polling_fallback) =>
        /\ pc \notin {"fb_sleep", "wf_read"}
        /\ Returned => result.tag = "Err"

\* C6 as amended: with init or add_watch failed and no polling interval, the
\* call makes one open attempt and returns at once, without any sleep or
\* event read: the handle if the attempt succeeds, open's error if it fails
\* otherwise than with NotFound, and else the inotify error.
C6_UnavailableReturnsAtOnce ==
    /\ [](Unavailable /\ ~options.polling_fallback =>
            pc \notin {"fb_sleep", "wf_read", "wf_open"})
    /\ [][(/\ Unavailable /\ ~options.polling_fallback /\ OpenAttempt)
            => /\ pc' = "returned"
               /\ result' = IF Open(options.open_options).tag = "Err"
                               /\ Open(options.open_options).error.kind = "NotFound"
                            THEN Failed(inotify_error)
                            ELSE Open(options.open_options)]_vars

\* C6 witness: such a call returned a handle.
C6_Witness ==
    /\ Unavailable /\ ~options.polling_fallback
    /\ pc = "returned" /\ Handle

\* C7: with assume_create_is_atomic = true and the watch established, once
\* the writer has created the file at the path, the call returns a handle,
\* even if the writer keeps the file open (or the file has left the path
\* again).
C7_CreateWakesWaiter ==
    \A i \in 1..MaxIno :
        (/\ options.create_is_atomic /\ watch /\ pc \in {"wf_open", "wf_read"}
         /\ NoResourceFailure
         /\ OpenableFileAt(i) /\ writer_fd = i)
            ~> (Handle \/ dentry # i)

\* C8 as claimed: with assume_create_is_atomic = false, no handle is returned
\* to a file that its writer created in place and still holds open.
C8_NoHandleBeforeClose ==
    (/\ ~options.create_is_atomic /\ pc = "returned" /\ Handle
     /\ inodes[result.file].kind = "file" /\ ~inodes[result.file].atomic)
        => writer_fd # result.file

\* C8 as amended: with assume_create_is_atomic = false, CREATE is not in the
\* watch mask, so no created signal reaches the wait loop and none triggers
\* an open attempt; an open attempt that finds the file returns it, whether
\* or not its writer has closed it.
C8_NoCreateSignal ==
    ~options.create_is_atomic =>
        \A k \in 1..Len(events) : events[k].mask # "CREATE"

\* C8 witness: without the assumption, an event named as the path is queued
\* for the wait loop.
C8_Witness ==
    /\ ~options.create_is_atomic
    /\ pc = "wf_read"
    /\ events # <<>> /\ events[1] = Event("CLOSE_WRITE", Some(path))

\* C9: the call holds at most one inotify instance, the watch lives only in
\* a live instance, and once the call has returned, by any path, neither
\* the instance nor the watch is live.
C9_WatchReleased ==
    /\ inotify \in {0, 1}
    /\ watch => inotify = 1
    /\ Returned => (inotify = 0 /\ ~watch)

\* C9 witness: a call that had its watch established, left the wait loop
\* for the polling fallback and returned from there.
C9_Witness ==
    /\ pc = "returned" /\ hist.established /\ inotify_error # NoError
    /\ inotify = 0

\* C10: an open attempt that fails otherwise than with NotFound, in the wait
\* loop or in the polling fallback, ends the call on the spot with that very
\* error of open.
OpenFailsOtherwise ==
    /\ Open(options.open_options).tag = "Err"
    /\ Open(options.open_options).error.kind # "NotFound"

C10_OtherErrorReturned ==
    [][(OpenAttempt /\ OpenFailsOtherwise)
          => (/\ pc' = "returned"
              /\ result' = Failed(Open(options.open_options).error)
              /\ result'.error.op = "open")]_vars

\* C10 witness: the polling fallback, entered with an inotify error,
\* returned open's permission error.
C10_Witness ==
    /\ pc = "returned" /\ inotify_error # NoError
    /\ result = Failed(EACCES_open)

\* the batch a step of the wait loop took from the queue
Taken == SubSeq(events, 1, Len(events) - Len(events'))
\* read_events_blocking returned a batch and the call stays in the wait loop
ReadStep ==
    /\ pc = "wf_read" /\ pc' \in {"wf_read", "wf_open"}
    /\ Len(events') < Len(events)

\* C11: the wait loop is entered, and its first open attempt made, only with
\* the watch added; an event named as the path that is queued while the call
\* is in the wait loop, before or after an open attempt found nothing, stays
\* queued until a read takes it, and that read ends the wait for events; and
\* a call blocked in the read while such an event is queued leaves the read.
C11_SignalNotLost ==
    /\ [](Readable => (hist.established /\ inotify = 1))
    /\ [][(/\ Readable /\ Readable'
           /\ HasMatch(events, path) /\ ~HasMatch(events', path))
             => (pc = "wf_read" /\ pc' = "wf_open")]_vars
    /\ (pc = "wf_read" /\ HasMatch(events, path)) ~> (pc # "wf_read")

\* C11 witness: an event named as the path is queued after the open attempt
\* found nothing and before the waiter has read any event.
C11_Witness ==
    /\ pc = "wf_read" /\ ~hist.signalled
    /\ events # <<>> /\ events[Len(events)].name = Some(path)

\* an event that carries no name and is not the IGNORED event
Nameless(e) == e.name = None /\ e.mask # "IGNORED"

\* C12 as stated: a batch that holds an event with no name, other than the
\* IGNORED event, is followed by an open re-attempt like a batch that holds
\* an event named as the path.
C12_NamelessIsMatch ==
    [][(ReadStep /\ \E i \in 1..Len(Taken) : Nameless(Taken[i]))
          => pc' = "wf_open"]_vars

\* C12 amended: only an event whose name is the path is a match; a batch is
\* followed by an open re-attempt exactly when it holds one, and a batch of
\* events without a name sends the waiter back to the blocking read.
C12_OnlyNamedIsMatch ==
    [][ReadStep => (pc' = "wf_open" <=> HasMatch(Taken, path))]_vars

\* C12 witness: the DELETE_SELF event of the watched directory, which has no
\* name, was read in a batch of its own and the waiter is blocked again, the
\* IGNORED event that follows it still queued.
C12_Witness ==
    /\ pc = "wf_read" /\ ~watch
    /\ events # <<>> /\ events[1].mask = "IGNORED"

InFallback == pc \in {"fb_open", "fb_sleep"}

\* C13 as stated: when the call has gone from the wait loop to the polling
\* fallback, the inotify instance is closed before the fallback opens or
\* sleeps.
C13_ReleasedBeforeFallback ==
    (InFallback /\ hist.established) => (inotify = 0 /\ ~watch)

\* C13 amended: a call that has gone from the wait loop to the polling
\* fallback keeps its inotify instance open through every open attempt and
\* sleep of the fallback, and closes it in the step that returns.
C13_HeldDuringFallback ==
    [][(InFallback /\ hist.established)
          => (inotify = 1 /\ (inotify' = 0 <=> pc' = "returned"))]_vars

\* C13 witness: after a failed read the fallback sleeps with the inotify
\* instance open and the directory still watched.
C13_Witness ==
    /\ pc = "fb_sleep" /\ hist.established
    /\ inotify_error = EINTR_read /\ inotify = 1 /\ watch

\* C14: in the wait loop an open attempt that found nothing is followed by
\* the blocking read, and the read is followed by an open attempt of the wait
\* loop only when the batch it returned holds an event named as the path; a
\* batch with no such event and no IGNORED event leaves the waiter blocked in
\* the read, with nothing opened and nothing returned.
C14_OpenOnlyAfterMatch ==
    /\ [][(pc = "wf_open" /\ pc' # pc /\ pc' # "returned")
             => pc' = "wf_read"]_vars
    /\ [][(pc = "wf_read" /\ pc' = "wf_open") => HasMatch(Taken, path)]_vars
    /\ [][(ReadStep /\ Scan(Taken, path, FALSE) = "none")
             => (pc' = "wf_read" /\ result' = Pending)]_vars

\* C14 witness: no batch with a match has been read; after an open attempt
\* found nothing, a batch with neither a match nor the IGNORED event was taken
\* from the queue, which now holds the IGNORED event alone, and the waiter
\* is blocked in the read again with nothing opened.
C14_Witness ==
    /\ pc = "wf_read" /\ ~hist.signalled /\ result = Pending
    /\ path = "test" /\ dentry = 0
    /\ events = <<Event("IGNORED", None)>>

\* C15: at an open attempt of the wait loop the toggle not_found_is_ok is
\* true if no matching batch has been read yet and equals retry_flukes
\* otherwise; so the first open attempt that finds nothing never ends the
\* call, and a later one ends it, with open's NotFound error, exactly when
\* retry_flukes is false.
C15_FlukeToggle ==
    /\ [](pc = "wf_open" =>
            not_found_is_ok = (IF hist.signalled THEN options.retry_flukes
                               ELSE TRUE))
    /\ [][(pc = "wf_open" /\ pc' # pc /\ dentry = 0) =>
            IF hist.signalled /\ ~options.retry_flukes
            THEN pc' = "returned" /\ result' = Failed(ENOENT_open)
            ELSE pc' = "wf_read" /\ result' = Pending]_vars

\* C15 witness: with retry_flukes false the first open attempt found nothing
\* and the waiter went on to block in the read.
C15_Witness ==
    /\ pc = "wf_read" /\ ~options.retry_flukes /\ dentry = 0
    /\ ~hist.signalled /\ events = <<>>

\* the errors a step into the polling fallback may record as its cause: the
\* error of init, the error of add_watch, the error of the failed read, or
\* NotFound when the batch read holds the IGNORED event
EscalationCauses ==
    IF pc = "init" THEN {EMFILE_init}
    ELSE IF pc = "add_watch" THEN
        {ENOSPC_add_watch} \cup
            (IF AddWatchResult # NoError THEN {AddWatchResult} ELSE {})
    ELSE IF pc = "wf_read" THEN
        {EINTR_read} \cup
            (IF \E i \in 1..Len(events) : events[i].mask = "IGNORED"
             THEN {NotFound_ignored} ELSE {})
    ELSE {}

\* C16: the cause recorded on the way into the polling fallback is the error
\* of init or add_watch, the error of the failed read, or a NotFound error
\* for an IGNORED event; it does not change in the fallback; and when the
\* fallback's open finds nothing and no polling interval is set, the call
\* returns that cause.
C16_FallbackReturnsCause ==
    /\ [][(~InFallback /\ InFallback') => inotify_error' \in EscalationCauses]_vars
    /\ [][InFallback => inotify_error' = inotify_error]_vars
    /\ [][(pc = "fb_open" /\ pc' # pc /\ dentry = 0
              /\ ~options.polling_fallback)
             => (pc' = "returned" /\ result' = Failed(inotify_error))]_vars

\* C16 witness: the read failed, the fallback's open found nothing, no polling
\* interval is set, and the call returned the error of the read.
C16_Witness ==
    /\ Returned /\ ~options.polling_fallback /\ hist.established
    /\ result = Failed(EINTR_read)

\* C17: every way into the polling fallback leads to an open attempt, never
\* to a sleep or a return; an open attempt of the fallback that succeeds
\* returns the handle; one that finds nothing is followed by a sleep when an
\* interval is set and by the return of the cause when none is, so that
\* without an interval the fallback opens once; an open that fails otherwise
\* returns its error; and every sleep is followed by another open attempt.
C17_FallbackOpensFirst ==
    /\ [][(~InFallback /\ InFallback') => (pc' = "fb_open" /\ result' = Pending)]_vars
    /\ [][(pc = "fb_open" /\ pc' # pc) =>
            LET r == Open(options.open_options) IN
                IF r.tag = "Ok" THEN pc' = "returned" /\ result' = r
                ELSE IF r.error.kind # "NotFound"
                     THEN pc' = "returned" /\ result' = r
                ELSE IF options.polling_fallback
                     THEN pc' = "fb_sleep" /\ result' = Pending
                ELSE pc' = "returned" /\ result' = Failed(inotify_error)]_vars
    /\ [][(pc = "fb_sleep" /\ pc' # pc) => pc' = "fb_open"]_vars
    /\ [](pc = "fb_sleep" => options.polling_fallback)

\* C17 witness: with no polling interval the call left the wait loop on an
\* IGNORED event, and the fallback's one open attempt returned the file.
C17_Witness ==
    /\ Returned /\ Handle /\ ~options.polling_fallback
    /\ inotify_error = NotFound_ignored

\* C18: with a polling interval set the call never returns the cause of an
\* escalation: every error it returns is an error of open; and with
\* retry_flukes set as well, as in the presets, that error is never
\* NotFound.
C18_PollingNeverMissing ==
    (Returned /\ ~Handle /\ options.polling_fallback) =>
        /\ result.error.op = "open"
        /\ options.retry_flukes => result.error.kind # "NotFound"

\* C18 witness: with an interval and retry_flukes set, a match was read, the
\* file was removed from the path, and the waiter is blocked in the read
\* again without having returned.
C18_Witness ==
    /\ pc = "wf_read" /\ options.polling_fallback /\ options.retry_flukes
    /\ hist.signalled /\ hist.fluke /\ dentry = 0 /\ result = Pending

HasIgnored(q) == \E i \in 1..Len(q) : q[i].mask = "IGNORED"

\* C19: a read that takes the IGNORED event from the queue sends the call to
\* the polling fallback with a NotFound cause, whether or not the same batch
\* holds an event named as the path: the wait loop makes no open attempt and
\* does not touch the toggle, and what happens when the fallback's open
\* finds nothing depends on the polling interval alone.
C19_IgnoredWins ==
    /\ [][(/\ pc = "wf_read" /\ HasIgnored(events) /\ ~HasIgnored(events')
           /\ inotify_error' # EINTR_read)
             => (/\ pc' = "fb_open"
                 /\ inotify_error' = NotFound_ignored
                 /\ not_found_is_ok' = not_found_is_ok
                 /\ result' = Pending)]_vars
    /\ [][(pc = "fb_open" /\ pc' # pc /\ dentry = 0
              /\ inotify_error = NotFound_ignored) =>
            IF options.polling_fallback THEN pc' = "fb_sleep"
            ELSE result' = Failed(NotFound_ignored)]_vars

\* C19 witness: one batch held an event named as the path and then the
\* IGNORED event; with retry_flukes true and no interval the call ended in
\* the fallback with the NotFound cause.
C19_Witness ==
    /\ Returned /\ result = Failed(NotFound_ignored)
    /\ hist.signalled /\ options.retry_flukes
    /\ ~options.polling_fallback

\* C20: once in the polling fallback the call stays in it until it returns:
\* it goes to no step of init, add_watch or the wait loop, takes no event
\* from the queue, adds no watch and keeps its cause; and the result of the
\* call is the result of the fallback's last open attempt or that cause.
C20_EscalationOneWay ==
    /\ [][InFallback =>
            (/\ pc' \in {"fb_open", "fb_sleep", "returned"}
             /\ (watch' => watch) /\ inotify' <= inotify
             /\ events' = events
             /\ inotify_error' = inotify_error)]_vars
    /\ [][(InFallback /\ pc' = "returned") =>
            (pc = "fb_open" /\ result' \in
                {Open(options.open_options), Failed(inotify_error)})]_vars
    /\ [][(~InFallback /\ pc' = "fb_open") =>
            pc \in {"init", "add_watch", "wf_read"}]_vars

\* C20 witness: with an interval set the call went from the wait loop to the
\* fallback on a failed read and returned the file from an open attempt of
\* the fallback.
C20_Witness ==
    /\ Returned /\ Handle /\ hist.established
    /\ inotify_error = EINTR_read /\ options.polling_fallback

====
